---- MODULE Spec2Model ----
(***************************************************************************)
(* Model of mcp-dicionario-da-rag: the CallTool handler of mcp-server.ts   *)
(* and the GalicianDictionary client of galician-dictionary.ts             *)
(* (searchWord, parseResponse, parseHtmlContent, extractReferences).       *)
(*                                                                         *)
(* Strings are sequences of tokens.  A token is one character (" ", ".",   *)
(* ":", a letter, a digit) or one of the literals the code matches         *)
(* against, so that trim, replace, startsWith and includes are computed on *)
(* the text and not assumed.                                               *)
(*                                                                         *)
(* A markup fragment is the element tree cheerio.load builds from it: a    *)
(* sequence of elements in document order, each with the marker it carries *)
(* (the class the selectors of the code look for), its parent (0 is the    *)
(* document, -1 a node that was removed from the tree) and its own text,   *)
(* which precedes its children.                                            *)
(***************************************************************************)
EXTENDS Integers, Sequences, FiniteSets, TLC

VARIABLES pc, request, fetches, body, response, dom, wordTitle, entry, todo, outcome

vars == <<pc, request, fetches, body, response, dom, wordTitle, entry, todo, outcome>>

-----------------------------------------------------------------------------
(* Bounds of the input space *)

\* the largest number of elements of a fragment the dictionary site writes
\* element by element
MaxNodes == 5

\* the largest number of parts of the dictionary page that vary at once
MaxVaried == 2

-----------------------------------------------------------------------------
(* JavaScript values *)

\* an optional value: undefined, or the value
undefined == <<>>

defined(v) == <<v>>

\* x || undefined, for a string x: the empty string is falsy
orUndefined(s) == IF s = <<>> THEN undefined ELSE defined(s)

-----------------------------------------------------------------------------
(* String operations *)

RECURSIVE trimStart(_)
trimStart(s) ==
    IF s # <<>> /\ Head(s) = " " THEN trimStart(Tail(s)) ELSE s

RECURSIVE trimEnd(_)
trimEnd(s) ==
    IF s # <<>> /\ s[Len(s)] = " " THEN trimEnd(SubSeq(s, 1, Len(s) - 1)) ELSE s

\* String.prototype.trim
trim(s) == trimEnd(trimStart(s))

\* String.prototype.startsWith
startsWith(s, prefix) ==
    Len(s) >= Len(prefix) /\ SubSeq(s, 1, Len(prefix)) = prefix

\* String.prototype.includes, for a literal that is one token
includes(s, literal) == \E i \in 1..Len(s) : s[i] = literal

\* String.prototype.replace(pattern, '') with a string pattern of one
\* character: only the first occurrence is replaced
RECURSIVE replace(_, _)
replace(s, pattern) ==
    IF s = <<>> THEN <<>>
    ELSE IF Head(s) = pattern THEN Tail(s)
    ELSE <<Head(s)>> \o replace(Tail(s), pattern)

\* the literals of extractReferences and of the expression filter
SINONIMO == <<"SINÓNIMO">>
SINONIMOS == <<"SINÓNIMO", "S">>
VEXASE == <<"VÉXASE">>
CONFRONTESE == <<"CONFRÓNTESE">>
PalabrasRelacionadas == <<"Palabras relacionadas:">>

-----------------------------------------------------------------------------
(* The element tree and the cheerio selections used by the code.           *)
(* A selection is the sequence of the selected elements in document order. *)

Document == 0

Detached == 0 - 1

\* n lies in the subtree of ctx, below ctx
RECURSIVE within(_, _, _)
within(tree, ctx, n) ==
    LET p == tree[n].parent
    IN  IF p = ctx THEN TRUE
        ELSE IF p <= 0 THEN FALSE
        ELSE within(tree, ctx, p)

\* the elements of the tree, in document order
elements(tree) == [i \in 1..Len(tree) |-> i]

\* $(ctx).find('.marker'): the descendants of ctx that carry the marker
find(tree, ctx, marker) ==
    IF ctx = Detached THEN <<>>
    ELSE SelectSeq(elements(tree), LAMBDA n : tree[n].marker = marker /\ within(tree, ctx, n))

\* $(ctx).find('> .marker'): the children of ctx that carry the marker
findChildren(tree, ctx, marker) ==
    SelectSeq(elements(tree), LAMBDA n : tree[n].marker = marker /\ tree[n].parent = ctx)

\* $(ctx).find('.outer .marker'): the selector is scoped to ctx, so the
\* outer element lies below ctx as well
findUnder(tree, ctx, outer, marker) ==
    SelectSeq(elements(tree), LAMBDA n :
        /\ tree[n].marker = marker
        /\ \E a \in 1..Len(tree) :
              /\ tree[a].marker = outer
              /\ within(tree, ctx, a)
              /\ within(tree, a, n))

\* $(ctx).find('.outer > .marker')
findChildOf(tree, ctx, outer, marker) ==
    SelectSeq(elements(tree), LAMBDA n :
        /\ tree[n].marker = marker
        /\ tree[n].parent > 0
        /\ tree[tree[n].parent].marker = outer
        /\ within(tree, ctx, tree[n].parent))

\* .first()
first(selection) ==
    IF selection = <<>> THEN <<>> ELSE <<selection[1]>>

\* selection.find('.marker') for a selection of at most one element
findIn(tree, selection, marker) ==
    IF selection = <<>> THEN <<>> ELSE find(tree, selection[1], marker)

\* selection.find('> .marker') for a selection of at most one element
findChildrenIn(tree, selection, marker) ==
    IF selection = <<>> THEN <<>> ELSE findChildren(tree, selection[1], marker)

\* $(el).siblings('.marker'): a removed element has no siblings
siblings(tree, el, marker) ==
    IF tree[el].parent = Detached THEN <<>>
    ELSE SelectSeq(elements(tree), LAMBDA n :
        n # el /\ tree[n].marker = marker /\ tree[n].parent = tree[el].parent)

\* $(el).parent().get(0)
parentOf(tree, el) == tree[el].parent

\* $(el).text(): the text of the element and of its descendants
RECURSIVE text(_, _)
RECURSIVE textFrom(_, _, _)
text(tree, n) == tree[n].text \o textFrom(tree, n, n + 1)

textFrom(tree, n, i) ==
    IF i > Len(tree) THEN <<>>
    ELSE (IF tree[i].parent = n THEN text(tree, i) ELSE <<>>)
             \o textFrom(tree, n, i + 1)

\* selection.text(): the texts of the selected elements, concatenated
RECURSIVE textAll(_, _)
textAll(tree, selection) ==
    IF selection = <<>> THEN <<>>
    ELSE text(tree, Head(selection)) \o textAll(tree, Tail(selection))

\* $(el).children().remove(): the child elements leave the tree; the text of
\* el itself stays
removeChildren(tree, el) ==
    [n \in 1..Len(tree) |->
        IF tree[n].parent = el THEN [tree[n] EXCEPT !.parent = Detached]
        ELSE tree[n]]

-----------------------------------------------------------------------------
(* extractReferences *)

\* the type of one .References block: the prefix of its own text, else the
\* text of its .Reference__Reference_type span; "null" when neither decides
referenceType(refText, typeSpan) ==
    IF startsWith(refText, SINONIMO) \/ startsWith(refText, SINONIMOS)
        THEN "SYNONYM"
    ELSE IF startsWith(refText, VEXASE) THEN "SEE"
    ELSE IF startsWith(refText, CONFRONTESE) THEN "COMPARE"
    ELSE IF includes(typeSpan, "SINÓNIMO") THEN "SYNONYM"
    ELSE IF includes(typeSpan, "VÉXASE") THEN "SEE"
    ELSE IF includes(typeSpan, "CONFRÓNTESE") THEN "COMPARE"
    ELSE "null"

\* the trimmed, non-empty texts of the selected links
RECURSIVE referenceWords(_, _)
referenceWords(tree, links) ==
    IF links = <<>> THEN <<>>
    ELSE LET word == trim(text(tree, Head(links)))
         IN  (IF word # <<>> THEN <<word>> ELSE <<>>)
                 \o referenceWords(tree, Tail(links))

\* the label of a block: $(referencesElement).children().remove().end().text()
\* removes the child elements from the tree before the text is read
stripChildren(tree, referencesElement) == removeChildren(tree, referencesElement)

\* the body of .each over the .References blocks of the context
RECURSIVE eachReferences(_, _, _)
eachReferences(tree, blocks, referencesList) ==
    IF blocks = <<>> THEN [referencesList |-> referencesList, tree |-> tree]
    ELSE
        LET referencesElement == Head(blocks)
            tree1 == stripChildren(tree, referencesElement)
            refText == trim(text(tree1, referencesElement))
            typeSpan == trim(textAll(tree1,
                            find(tree1, referencesElement, "Reference__Reference_type")))
            refType == referenceType(refText, typeSpan)
            words == referenceWords(tree1, find(tree1, referencesElement, "a.Reference"))
        IN  eachReferences(tree1, Tail(blocks),
                IF refType # "null" /\ words # <<>>
                THEN Append(referencesList, [type |-> refType, words |-> words])
                ELSE referencesList)

extractReferences(tree, contextElement) ==
    eachReferences(tree, find(tree, contextElement, "References"), <<>>)

-----------------------------------------------------------------------------
(* parseHtmlContent: senses *)

\* the trimmed texts of the selected example elements
examplesOf(tree, exampleEls) ==
    [k \in 1..Len(exampleEls) |-> trim(text(tree, exampleEls[k]))]

\* a variant that keeps the senses without definition text
skipSenseNever(definitionText) == FALSE

\* if (!definitionText) return
skipSense(definitionText) == definitionText = <<>>

\* a variant that inserts at the front
unshift(array, item) == <<item>> \o array

\* array.push
push(array, item) == Append(array, item)

\* the sense label: .find('.Sense__SenseNumber').text().trim().replace('.', '')
senseNumberOf(tree, element) ==
    replace(trim(textAll(tree, find(tree, element, "Sense__SenseNumber"))), ".")

\* the body of the .each over .Sense elements (lines 157-177 and 198-218).
\* node and exampleNodes record the elements the Definition was read from.
senseDefinition(tree, element) ==
    LET senseNumber == senseNumberOf(tree, element)
        definitionText == trim(textAll(tree,
                              first(find(tree, element, "Definition__Definition"))))
        exampleEls == find(tree, element, "Example__Example")
        references == extractReferences(tree, element)
    IN  IF skipSense(definitionText)
        THEN [skip |-> TRUE, tree |-> tree, definition |-> <<>>]
        ELSE [skip |-> FALSE,
              tree |-> references.tree,
              definition |->
                <<[sense |-> orUndefined(senseNumber),
                   definition |-> definitionText,
                   examples |-> examplesOf(tree, exampleEls),
                   references |-> first(references.referencesList),
                   node |-> element,
                   exampleNodes |-> exampleEls]>>]

RECURSIVE eachSense(_, _, _)
eachSense(tree, senses, definitions) ==
    IF senses = <<>> THEN [definitions |-> definitions, tree |-> tree]
    ELSE LET r == senseDefinition(tree, Head(senses))
         IN  eachSense(r.tree, Tail(senses),
                 IF r.skip THEN definitions ELSE push(definitions, r.definition[1]))

-----------------------------------------------------------------------------
(* parseHtmlContent: expressions *)

\* the .Example__Example elements below the selected .Example siblings
RECURSIVE findInEach(_, _, _)
findInEach(tree, selection, marker) ==
    IF selection = <<>> THEN <<>>
    ELSE find(tree, Head(selection), marker) \o findInEach(tree, Tail(selection), marker)

\* a variant of the fallback that labels its Definitions as the sense loops do
fallbackDefinitionLabelled(tree, defEl) ==
    LET r == senseDefinition(tree, defEl)
    IN  IF r.skip THEN r
        ELSE [r EXCEPT !.definition = <<[r.definition[1] EXCEPT
                 !.sense = defined(<<"1">>)]>>]

\* the body of the .each over '.Subentry > .Definition' (lines 223-240)
fallbackDefinition(tree, defEl) ==
    LET definitionText == trim(textAll(tree,
                              first(find(tree, defEl, "Definition__Definition"))))
        exampleEls == findInEach(tree, siblings(tree, defEl, "Example"), "Example__Example")
        references == extractReferences(tree, parentOf(tree, defEl))
    IN  IF definitionText = <<>>
        THEN [skip |-> TRUE, tree |-> tree, definition |-> <<>>]
        ELSE [skip |-> FALSE,
              tree |-> references.tree,
              definition |->
                <<[sense |-> undefined,
                   definition |-> definitionText,
                   examples |-> examplesOf(tree, exampleEls),
                   references |-> first(references.referencesList),
                   node |-> defEl,
                   exampleNodes |-> exampleEls]>>]

RECURSIVE eachFallback(_, _, _)
eachFallback(tree, defEls, definitions) ==
    IF defEls = <<>> THEN [definitions |-> definitions, tree |-> tree]
    ELSE LET r == fallbackDefinition(tree, Head(defEls))
         IN  eachFallback(r.tree, Tail(defEls),
                 IF r.skip THEN definitions ELSE push(definitions, r.definition[1]))

\* the expression text: .find('.Fraseoloxia__Texto').first().text().trim()
expressionTextOf(tree, element) ==
    trim(textAll(tree, first(find(tree, element, "Fraseoloxia__Texto"))))

\* a variant without the "Palabras relacionadas:" filter
skipExpressionBlankOnly(expressionText) == expressionText = <<>>

\* the two early returns of the .each over .Fraseoloxia (lines 186-191)
skipExpression(expressionText) ==
    startsWith(expressionText, PalabrasRelacionadas) \/ expressionText = <<>>

\* a variant that takes the senses anywhere below the expression block
expressionSensesAnywhere(tree, element) == find(tree, element, "Sense")

\* the senses of an expression: $(element).find('.Subentry .Sense')
expressionSenses(tree, element) == findUnder(tree, element, "Subentry", "Sense")

\* the definitions of one expression: its senses, else its direct definitions
expressionDefinitions(tree, element) ==
    LET senses == eachSense(tree, expressionSenses(tree, element), <<>>)
    IN  IF Len(senses.definitions) = 0
        THEN eachFallback(senses.tree,
                 findChildOf(senses.tree, element, "Subentry", "Definition"), <<>>)
        ELSE senses

\* the body of the .each over .Fraseoloxia (lines 182-251)
parseExpression(tree, element, expressions) ==
    LET expressionText == expressionTextOf(tree, element)
        found == expressionDefinitions(tree, element)
    IN  IF skipExpression(expressionText)
        THEN [expressions |-> expressions, tree |-> tree]
        ELSE [expressions |->
                  IF expressionText # <<>> /\ Len(found.definitions) > 0
                  THEN push(expressions, [expression |-> expressionText,
                                          definitions |-> found.definitions,
                                          node |-> element])
                  ELSE expressions,
              tree |-> found.tree]

-----------------------------------------------------------------------------
(* parseHtmlContent: the entry head and the top-level definitions *)

\* $('.Subentry').first()
mainEntryBlockOf(tree) == first(find(tree, Document, "Subentry"))

\* the word: the title, or the text of the h2 of the main block when it is
\* non-empty and differs (lines 131, 145-149)
entryWord(tree, title) ==
    LET word == trim(title)
        h2Word == trim(textAll(tree,
                      findIn(tree, mainEntryBlockOf(tree), "h2.Entry__Word_form")))
    IN  IF h2Word # <<>> /\ h2Word # word THEN h2Word ELSE word

\* line 153
entryPartOfSpeech(tree) ==
    orUndefined(trim(textAll(tree,
        first(findIn(tree, mainEntryBlockOf(tree), "Subentry__Part_of_speech")))))

\* mainEntryBlock.find('> .Sense')
mainSenses(tree) == findChildrenIn(tree, mainEntryBlockOf(tree), "Sense")

-----------------------------------------------------------------------------
(* Markup fragments given to the parser *)

El(marker, parent, txt) == [marker |-> marker, parent |-> parent, text |-> txt]

\* the markers an element may hold as children in an enumerated fragment;
\* the markers that hold none are leaves
Contains(marker) ==
    CASE marker = "#document" -> {"Subentry", "Fraseoloxia"}
      [] marker = "Subentry" ->
            {"h2.Entry__Word_form", "Subentry__Part_of_speech", "Sense",
             "Definition", "Example", "Fraseoloxia"}
      [] marker = "Fraseoloxia" -> {"Fraseoloxia__Texto", "Subentry", "Sense"}
      [] marker = "Sense" ->
            {"Sense__SenseNumber", "Definition__Definition", "Example__Example",
             "References"}
      [] marker = "Definition" -> {"Definition__Definition"}
      [] marker = "Example" -> {"Example__Example"}
      [] marker = "References" -> {"Reference__Reference_type", "a.Reference"}
      [] OTHER -> {}

\* the texts an element of an enumerated fragment may carry
Texts(marker) ==
    CASE marker = "h2.Entry__Word_form" -> {<<"casa">>, <<"fogar">>}
      [] marker = "Subentry__Part_of_speech" -> {<<"substantivo">>}
      [] marker = "Sense__SenseNumber" -> {<<"1", ".">>, <<"1", ".", "2", ".">>}
      [] marker = "Definition__Definition" -> {<<"Edificio">>, <<" ">>}
      [] marker = "Example__Example" -> {<<"A", " ", "casa">>}
      [] marker = "Fraseoloxia__Texto" ->
            {<<"Casa", " ", "grande">>, <<"Palabras relacionadas:", " ", "fogar">>}
      [] marker = "References" -> {<<"SINÓNIMO", "S", ":", " ">>, <<>>}
      [] marker = "Reference__Reference_type" -> {<<"VÉXASE">>}
      [] marker = "a.Reference" -> {<<"edificio">>}
      [] OTHER -> {<<>>}

markerAt(tree, n) == IF n = Document THEN "#document" ELSE tree[n].marker

\* the elements still open after the last one: where the next one may go
RECURSIVE pathTo(_, _)
pathTo(tree, n) ==
    IF n = Document THEN {Document} ELSE {n} \cup pathTo(tree, tree[n].parent)

OpenElements(tree) ==
    IF tree = <<>> THEN {Document} ELSE pathTo(tree, Len(tree))

Extensions(tree) ==
    UNION { UNION { { Append(tree, El(m, p, t)) : t \in Texts(m) }
                    : m \in Contains(markerAt(tree, p)) }
            : p \in OpenElements(tree) }

\* a dictionary page: a headword, two numbered senses, the first with examples
\* and a references block, and two expression blocks
Page(c) ==
    << El("Subentry", Document, <<>>),
       El("h2.Entry__Word_form", 1, c.h2),
       El("h2.Entry__Word_form", 1, c.h2b),
       El("Subentry__Part_of_speech", 1, <<" ", "substantivo", " ">>),
       El("Sense", 1, <<>>),
       El("Sense__SenseNumber", 5, c.number),
       El("Definition__Definition", 5, c.definition),
       El("Example__Example", 5, <<"A", " ", "casa", " ">>),
       El("Example__Example", 5, <<"Unha", " ", "casa">>),
       El("References", 5, c.label),
       El("Reference__Reference_type", 10, c.typeSpan),
       El("a.Reference", 10, <<"edificio">>),
       El("a.Reference", 10, <<" ", "construción">>),
       El("Sense", 1, <<>>),
       El("Sense__SenseNumber", 14, <<"2", ".">>),
       El("Definition__Definition", 14, <<"Familia">>),
       El("Fraseoloxia", c.where, <<>>),
       El("Fraseoloxia__Texto", 17, c.expression),
       El("Subentry", 17, <<>>),
       El(c.inner, 19, <<>>),
       El("Sense__SenseNumber", 20, <<"1", ".">>),
       El("Definition__Definition", 20, <<"Moi", " ", "grande">>),
       El("Example", 19, <<>>),
       El("Example__Example", 23, <<"É", " ", "grande">>),
       El("Fraseoloxia", c.where, <<>>),
       El("Fraseoloxia__Texto", 25, <<"Casa", " ", "do", " ", "concello">>),
       El("Subentry", 25, <<>>),
       El("Sense", 27, <<>>),
       El("Definition__Definition", 28, <<"Edificio", " ", "municipal">>) >>

PageParts ==
    [ h2 : {<<"casa">>, <<" ", "casa", " ">>, <<" ">>},
      h2b : {<<>>, <<"2">>},
      number : {<<"1", ".">>, <<" ", "1", ".", " ">>, <<"1", ".", "2", ".">>, <<>>},
      definition : {<<"Edificio", " ", "para", " ", "vivir">>, <<" ">>},
      label : {<<"SINÓNIMO", "S", ":", " ">>, <<"VÉXASE", " ">>, <<"CONFRÓNTESE">>,
               <<"Outras", ":">>},
      typeSpan : {<<>>, <<"SINÓNIMO">>},
      where : {Document, 1},
      expression : {<<" ", "Casa", " ", "grande">>,
                    <<"Palabras relacionadas:", " ", "fogar">>, <<" ">>},
      inner : {"Sense", "Definition"} ]

\* the page of the spec's scenarios A and C
BasePage ==
    [ h2 |-> <<"casa">>, h2b |-> <<>>, number |-> <<"1", ".">>,
      definition |-> <<"Edificio", " ", "para", " ", "vivir">>,
      label |-> <<"SINÓNIMO", "S", ":", " ">>, typeSpan |-> <<>>,
      where |-> Document,
      expression |-> <<" ", "Casa", " ", "grande">>, inner |-> "Sense" ]

PageChoices ==
    { c \in PageParts :
        Cardinality({ part \in DOMAIN BasePage : c[part] # BasePage[part] })
            <= MaxVaried }

Pages == { Page(c) : c \in PageChoices }

-----------------------------------------------------------------------------
(* Response payloads: response.data of the POST *)

\* a string holding markup: blank is the empty string
Html(tree) == [blank |-> FALSE, elements |-> tree]

EmptyString == [blank |-> TRUE, elements |-> <<>>]

Item(htmlContent, title) ==
    [type |-> "object", htmlContent |-> htmlContent, title |-> title]

NullItem == [type |-> "null", htmlContent |-> undefined, title |-> undefined]

Data(type, itemsType, elems) ==
    [type |-> type, items |-> [type |-> itemsType, elems |-> elems]]

\* an item that carries a fragment and a title
UsableItem ==
    Item(defined(Html(<<El("Subentry", Document, <<>>),
                        El("Sense", 1, <<>>),
                        El("Definition__Definition", 2, <<"Familia">>)>>)),
         defined(<<"fogar">>))

\* the first items that carry no usable fragment
UnusableItems ==
    { NullItem,
      Item(undefined, undefined),
      Item(undefined, defined(<<"casa">>)),
      Item(defined(EmptyString), defined(<<"casa">>)) }

\* payloads parseResponse must answer with null
UnusablePayloads ==
    { Data("null", "undefined", <<>>),
      Data("string", "undefined", <<>>),
      Data("object", "undefined", <<>>),
      Data("object", "string", <<>>),
      Data("object", "object", <<>>),
      Data("object", "array", <<>>) }
    \cup { Data("object", "array", <<i>>) : i \in UnusableItems }
    \cup { Data("object", "array", <<i, UsableItem>>) : i \in UnusableItems }

Titles == { undefined, defined(<<>>), defined(<<" ", "casa", " ">>), defined(<<"fogar">>) }

PagePayloads ==
    { Data("object", "array", <<Item(defined(Html(tree)), title), UsableItem>>)
        : tree \in Pages, title \in Titles }

\* the payloads the site may answer with: the fragment it wrote, or one of
\* the payloads above
Payloads(written) ==
    IF written = <<>>
    THEN UnusablePayloads \cup PagePayloads
    ELSE { Data("object", "array", <<Item(defined(Html(written)), undefined)>>) }

-----------------------------------------------------------------------------
(* parseResponse *)

null == <<>>

\* a variant that takes the first item that carries a fragment
parseResponseAnyItem(data, word) ==
    IF data.type # "object" \/ data.items.type # "array" THEN null
    ELSE
        LET usable == SelectSeq(data.items.elems,
                          LAMBDA i : i.htmlContent # undefined /\ ~i.htmlContent[1].blank)
        IN  IF usable = <<>> THEN null
            ELSE <<[htmlContent |-> usable[1].htmlContent[1].elements,
                    wordTitle |-> IF usable[1].title = undefined \/ usable[1].title[1] = <<>>
                                  THEN word ELSE usable[1].title[1]]>>

\* lines 90-120: null, or the fragment and the title of the first item
parseResponse(data, word) ==
    IF data.type # "object" THEN null
    ELSE IF data.items.type # "array" \/ Len(data.items.elems) = 0 THEN null
    ELSE
        LET item == data.items.elems[1]
            htmlContent == item.htmlContent
            title == item.title
        IN  IF htmlContent = undefined \/ htmlContent[1].blank THEN null
            ELSE <<[htmlContent |-> htmlContent[1].elements,
                    wordTitle |-> IF title = undefined \/ title[1] = <<>>
                                  THEN word ELSE title[1]]>>

-----------------------------------------------------------------------------
(* The tool call: mcp-server.ts, CallToolRequestSchema handler *)

ToolName == "lookup-galician-word"

Requests ==
    [ name : {ToolName, "lookup"},
      word : {undefined, defined(<<>>), defined(<<"casa">>)} ]

\* GalicianWordArgumentsSchema: word is a string of at least one character
validArguments(req) == req.word # undefined /\ Len(req.word[1]) >= 1

NoResponse == [status |-> "none", data |-> Data("null", "undefined", <<>>)]

NoOutcome == [type |-> "none", message |-> ""]

Failure(message) == [type |-> "error", message |-> message]

TextResult(message) == [type |-> "text", message |-> message]

Init ==
    /\ pc = "received"
    /\ request \in Requests
    /\ fetches = 0
    /\ body = <<>>
    /\ response = NoResponse
    /\ dom = <<>>
    /\ wordTitle = <<>>
    /\ entry = null
    /\ todo = <<>>
    /\ outcome = NoOutcome

\* lines 136-140
UnknownTool ==
    /\ pc = "received"
    /\ request.name # ToolName
    /\ outcome' = Failure("Ferramenta descoñecida")
    /\ pc' = "done"
    /\ UNCHANGED <<request, fetches, body, response, dom, wordTitle, entry, todo>>

\* lines 144 and 174-178: the ZodError is rethrown as an error
InvalidArguments ==
    /\ pc = "received"
    /\ request.name = ToolName
    /\ ~validArguments(request)
    /\ outcome' = Failure("Argumentos inválidos")
    /\ pc' = "done"
    /\ UNCHANGED <<request, fetches, body, response, dom, wordTitle, entry, todo>>

\* lines 144-152 and 47-68: the handler runs up to the await of axios.post
SearchWord ==
    /\ pc = "received"
    /\ request.name = ToolName
    /\ validArguments(request)
    /\ fetches' = fetches + 1
    /\ pc' = "awaiting"
    /\ UNCHANGED <<request, body, response, dom, wordTitle, entry, todo, outcome>>

\* the dictionary site composes its answer: one more element of the fragment
SiteWrites ==
    /\ pc = "awaiting"
    /\ Len(body) < MaxNodes
    /\ body' \in Extensions(body)
    /\ UNCHANGED <<pc, request, fetches, response, dom, wordTitle, entry, todo, outcome>>

\* searchWord returned null: lines 159-168
NoEntry ==
    /\ outcome' = TextResult("Non se atoparon resultados")
    /\ pc' = "done"

\* a variant that posts again after a rejected request
PostRejectedRetry ==
    /\ pc = "awaiting"
    /\ fetches < 3
    /\ response' = [NoResponse EXCEPT !.status = "rejected"]
    /\ fetches' = fetches + 1
    /\ UNCHANGED <<pc, request, body, dom, wordTitle, entry, todo, outcome>>

\* axios.post rejects (no connection, or a status outside 2xx): the catch of
\* searchWord returns null (lines 76-81)
PostRejected ==
    /\ pc = "awaiting"
    /\ response' = [NoResponse EXCEPT !.status = "rejected"]
    /\ NoEntry
    /\ UNCHANGED <<request, fetches, body, dom, wordTitle, entry, todo>>

\* a 2xx status other than 200: lines 70-73
PostNot200 ==
    /\ pc = "awaiting"
    /\ response' = [NoResponse EXCEPT !.status = "204"]
    /\ NoEntry
    /\ UNCHANGED <<request, fetches, body, dom, wordTitle, entry, todo>>

\* status 200: parseResponse (line 75) returns null, or cheerio.load builds
\* the tree of the first item's fragment (line 129)
Post200 ==
    /\ pc = "awaiting"
    /\ \E data \in Payloads(body) :
          LET located == parseResponse(data, request.word[1])
          IN  /\ response' = [status |-> "200", data |-> data]
              /\ IF located = null
                 THEN NoEntry /\ UNCHANGED <<dom, wordTitle>>
                 ELSE /\ dom' = located[1].htmlContent
                      /\ wordTitle' = located[1].wordTitle
                      /\ pc' = "parseHtmlContent"
                      /\ UNCHANGED outcome
    /\ UNCHANGED <<request, fetches, body, entry, todo>>

\* parseHtmlContent, lines 129-178: the head of the entry and the top-level
\* definitions; line 182 selects the expression blocks
ParseMain ==
    /\ pc = "parseHtmlContent"
    /\ LET main == eachSense(dom, mainSenses(dom), <<>>)
       IN  /\ entry' = <<[word |-> entryWord(dom, wordTitle),
                          partOfSpeech |-> entryPartOfSpeech(dom),
                          definitions |-> main.definitions,
                          expressions |-> <<>>]>>
           /\ dom' = main.tree
           /\ todo' = find(main.tree, Document, "Fraseoloxia")
    /\ pc' = "expressions"
    /\ UNCHANGED <<request, fetches, body, response, wordTitle, outcome>>

\* one turn of the .each over the expression blocks, lines 182-251
ParseExpression ==
    /\ pc = "expressions"
    /\ todo # <<>>
    /\ LET r == parseExpression(dom, Head(todo), entry[1].expressions)
       IN  /\ entry' = <<[entry[1] EXCEPT !.expressions = r.expressions]>>
           /\ dom' = r.tree
    /\ todo' = Tail(todo)
    /\ UNCHANGED <<pc, request, fetches, body, response, wordTitle, outcome>>

\* lines 262, 75, 156-168: the entry is returned and formatted
ReturnEntry ==
    /\ pc = "expressions"
    /\ todo = <<>>
    /\ outcome' = TextResult("entry")
    /\ pc' = "done"
    /\ UNCHANGED <<request, fetches, body, response, dom, wordTitle, entry, todo>>

Next ==
    \/ UnknownTool
    \/ InvalidArguments
    \/ SearchWord
    \/ SiteWrites
    \/ PostRejected
    \/ PostNot200
    \/ Post200
    \/ ParseMain
    \/ ParseExpression
    \/ ReturnEntry

Spec == Init /\ [][Next]_vars

-----------------------------------------------------------------------------
(* Properties *)

\* the fragment of the first item, as the site sent it
html == response.data.items.elems[1].htmlContent[1].elements

\* parseHtmlContent has returned its entry to the handler
Returned == pc = "done" /\ entry # null

Range(seq) == { seq[i] : i \in 1..Len(seq) }

\* the Definitions of the entry: its own and those of its expressions
AllDefinitions ==
    Range(entry[1].definitions)
        \cup UNION { Range(x.definitions) : x \in Range(entry[1].expressions) }

Increasing(seq) == \A i \in 1..Len(seq) : \A j \in 1..Len(seq) : i < j => seq[i] < seq[j]

Nodes(seq) == [i \in 1..Len(seq) |-> seq[i].node]

\* the elements of the fragment that carry the marker
Marked(tree, marker) == { n \in 1..Len(tree) : tree[n].marker = marker }

\* the trimmed text of the first definition-text marker of an element
DefinitionTextOf(tree, n) ==
    trim(textAll(tree, first(find(tree, n, "Definition__Definition"))))

\* the payloads of claim C1: not an object, no item list, an empty item list,
\* or a first item without markup fragment
NotLocatable(data) ==
    \/ data.type # "object"
    \/ data.items.type # "array"
    \/ data.items.elems = <<>>
    \/ data.items.elems[1].htmlContent = undefined

\* C1: parseResponse answers null, and raises nothing, for every payload that
\* is not an object, has no item list or a non-list one, has an empty item
\* list, or whose first item has no htmlContent, also when a later item has
\* one: the call ends with the "no results" text and no entry is built.
C1_LocatorFailsSoft ==
    (response.status = "200" /\ NotLocatable(response.data))
        => /\ entry = null
           /\ dom = <<>>
           /\ pc = "done"
           /\ outcome = TextResult("Non se atoparon resultados")

\* the first item has no fragment and the second one has
C1_Witness ==
    /\ pc = "done"
    /\ response.status = "200"
    /\ response.data.items.type = "array"
    /\ Len(response.data.items.elems) = 2
    /\ response.data.items.elems[1].htmlContent = undefined
    /\ response.data.items.elems[2].htmlContent # undefined

\* the own label of a references block, nested elements excluded
LabelOf(tree, block) == trim(tree[block].text)

LabelledType(tree, block) ==
    IF startsWith(LabelOf(tree, block), SINONIMO) THEN "SYNONYM"
    ELSE IF startsWith(LabelOf(tree, block), VEXASE) THEN "SEE"
    ELSE IF startsWith(LabelOf(tree, block), CONFRONTESE) THEN "COMPARE"
    ELSE "none"

LinkWords(tree, block) == referenceWords(tree, find(tree, block, "a.Reference"))

\* the references blocks of a sense with a known label and a non-empty link
LabelledBlocks(tree, sense) ==
    SelectSeq(find(tree, sense, "References"),
        LAMBDA b : LabelledType(tree, b) # "none" /\ LinkWords(tree, b) # <<>>)

\* C2: for every sense with a references block whose own label starts with
\* SINÓNIMO(S), VÉXASE or CONFRÓNTESE and that holds a non-empty reference
\* link, the Definition's references is {type: SYNONYM / SEE / COMPARE,
\* words: the trimmed texts of the links of the block in document order}.
C2_ReferencesExtracted ==
    entry # null =>
        \A d \in AllDefinitions :
            (html[d.node].marker = "Sense" /\ LabelledBlocks(html, d.node) # <<>>)
                => LET block == LabelledBlocks(html, d.node)[1]
                   IN  d.references = <<[type |-> LabelledType(html, block),
                                         words |-> LinkWords(html, block)]>>

\* C3: every Definition of the entry, top-level, of an expression or from the
\* fallback path, has a non-empty trimmed definition text, and a sense whose
\* definition-text marker is missing or blank contributes no Definition.
C3_DefinitionTextNonEmpty ==
    entry # null =>
        /\ \A d \in AllDefinitions :
              /\ d.definition # <<>>
              /\ trim(d.definition) = d.definition
              /\ d.definition = DefinitionTextOf(html, d.node)
        /\ \A s \in Marked(html, "Sense") :
              DefinitionTextOf(html, s) = <<>>
                  => \A d \in AllDefinitions : d.node # s

\* an entry with Definitions from a fragment that also has a blank sense
C3_Witness ==
    /\ Returned
    /\ AllDefinitions # {}
    /\ \E s \in Marked(html, "Sense") :
          /\ find(html, s, "Definition__Definition") # <<>>
          /\ DefinitionTextOf(html, s) = <<>>

\* the text of an expression block
ExpressionTextOf(tree, n) ==
    trim(textAll(tree, first(find(tree, n, "Fraseoloxia__Texto"))))

\* C4: every Expression of the entry has a non-empty text that does not begin
\* with "Palabras relacionadas:" and at least one Definition; an expression
\* block whose text begins with "Palabras relacionadas:" contributes no
\* Expression, whatever senses it holds.
C4_ExpressionsValid ==
    entry # null =>
        /\ \A x \in Range(entry[1].expressions) :
              /\ x.expression # <<>>
              /\ ~startsWith(x.expression, PalabrasRelacionadas)
              /\ Len(x.definitions) >= 1
              /\ x.expression = ExpressionTextOf(html, x.node)
        /\ \A f \in Marked(html, "Fraseoloxia") :
              startsWith(ExpressionTextOf(html, f), PalabrasRelacionadas)
                  => \A x \in Range(entry[1].expressions) : x.node # f

\* a "Palabras relacionadas:" block with a sense of its own under a sub-entry
\* container, in a fragment that yields another Expression
C4_Witness ==
    /\ Returned
    /\ entry[1].expressions # <<>>
    /\ \E f \in Marked(html, "Fraseoloxia") :
          /\ startsWith(ExpressionTextOf(html, f), PalabrasRelacionadas)
          /\ \E s \in Range(findUnder(html, f, "Subentry", "Sense")) :
                DefinitionTextOf(html, s) # <<>>

\* C5: a lookup that finds nothing ends with the text "no results for word
\* X", and a lookup that fails (the post is rejected, or answers with a
\* status other than 200) ends with a tool error.
C5_FailureIsError ==
    pc = "done" =>
        /\ (response.status = "200" /\ entry = null)
              => outcome = TextResult("Non se atoparon resultados")
        /\ response.status \in {"rejected", "204"} => outcome.type = "error"

\* a text without its last character when that is a period
stripTrailingPeriod(s) ==
    IF s # <<>> /\ s[Len(s)] = "." THEN SubSeq(s, 1, Len(s) - 1) ELSE s

\* the label claim C6 gives a sense with at most one sense-number marker
ClaimedSense(tree, sense) ==
    LET number == trim(textAll(tree, find(tree, sense, "Sense__SenseNumber")))
    IN  IF number = <<>> THEN undefined
        ELSE defined(trim(stripTrailingPeriod(number)))

\* C6: the sense label of a Definition is the trimmed text of the sense-number
\* marker of its sense without a trailing '.' ("1." gives "1", "1.2." gives
\* "1.2"), and is absent when the marker is missing or blank.
C6_SenseLabel ==
    entry # null =>
        \A d \in AllDefinitions :
            (/\ html[d.node].marker = "Sense"
             /\ Len(find(html, d.node, "Sense__SenseNumber")) <= 1)
                => d.sense = ClaimedSense(html, d.node)

\* the headword headings of the primary block with a non-blank text
Headings(tree) ==
    SelectSeq(findIn(tree, mainEntryBlockOf(tree), "h2.Entry__Word_form"),
        LAMBDA h : trim(text(tree, h)) # <<>>)

\* the title of the first item, else the searched word
FallbackTitle ==
    LET title == response.data.items.elems[1].title
    IN  IF title = undefined \/ title[1] = <<>> THEN request.word[1] ELSE title[1]

\* C7: the word of the entry is the trimmed fallback title, unless the primary
\* block holds a headword heading with non-blank text: then it is the trimmed
\* text of one such heading, also when the block holds several.
C7_WordFromHeading ==
    entry # null =>
        IF Headings(html) = <<>>
        THEN entry[1].word = trim(FallbackTitle)
        ELSE \E h \in Range(Headings(html)) : entry[1].word = trim(text(html, h))

\* the expression blocks with a valid text that hold a sense with definition
\* text
DefinedExpressions(tree) ==
    { f \in Marked(tree, "Fraseoloxia") :
        /\ ExpressionTextOf(tree, f) # <<>>
        /\ ~startsWith(ExpressionTextOf(tree, f), PalabrasRelacionadas)
        /\ \E s \in Range(find(tree, f, "Sense")) : DefinitionTextOf(tree, s) # <<>> }

\* the head of an entry extracted from a fragment without primary block
HeadWithoutPrimaryBlock ==
    /\ outcome = TextResult("entry")
    /\ entry[1].word = trim(FallbackTitle)
    /\ entry[1].partOfSpeech = undefined
    /\ entry[1].definitions = <<>>

C9_DocumentOrder ==
    entry # null =>
        /\ Increasing(Nodes(entry[1].definitions))
        /\ Increasing(Nodes(entry[1].expressions))
        /\ \A x \in Range(entry[1].expressions) : Increasing(Nodes(x.definitions))
        /\ \A d \in AllDefinitions :
              /\ Increasing(d.exampleNodes)
              /\ Len(d.examples) = Len(d.exampleNodes)
              /\ \A k \in 1..Len(d.examples) :
                    /\ html[d.exampleNodes[k]].marker = "Example__Example"
                    /\ d.examples[k] = trim(text(html, d.exampleNodes[k]))

\* an entry with two definitions, two examples in one of them, and two
\* expressions
C9_Witness ==
    /\ Returned
    /\ Len(entry[1].definitions) >= 2
    /\ Len(entry[1].expressions) >= 2
    /\ \E d \in AllDefinitions : Len(d.examples) >= 2

\* C10: a tool call posts at most once and never again after a failure; it
\* posts only when the tool name matched and the arguments were valid (an
\* unknown name or a missing or empty word ends in an error without a post);
\* a finished call has exactly one outcome, a text result or an error, and a
\* call that is not finished has none.
C10_SingleFetch ==
    /\ fetches <= 1
    /\ fetches = 1 => (request.name = ToolName /\ validArguments(request))
    /\ response.status # "none" => fetches = 1
    /\ response.status \in {"rejected", "204"} => pc = "done"
    /\ (pc = "done") = (outcome.type \in {"text", "error"})
    /\ (pc # "done") = (outcome.type = "none")
    /\ (pc = "done" /\ ~(request.name = ToolName /\ validArguments(request)))
          => (outcome.type = "error" /\ fetches = 0)

\* a call whose post was rejected has ended
C10_Witness ==
    /\ pc = "done"
    /\ response.status = "rejected"
    /\ fetches = 1

\* the element lies inside an expression block of the fragment
InExpressionBlock(tree, n) ==
    \E f \in Marked(tree, "Fraseoloxia") : within(tree, f, n)

\* C11: no sense that belongs to an expression block contributes a
\* Definition to the top-level definitions of the entry, and no sense yields
\* both a top-level Definition and a Definition of an expression; this
\* includes the fragments whose first sub-entry container lies inside an
\* expression block.
C11_ExpressionSensesNotTopLevel ==
    Returned =>
        /\ \A d \in Range(entry[1].definitions) : ~InExpressionBlock(html, d.node)
        /\ \A d \in Range(entry[1].definitions) :
              \A x \in Range(entry[1].expressions) :
                 \A e \in Range(x.definitions) : e.node # d.node

\* the expression blocks with a valid text
ValidExpressionBlocks(tree) ==
    { f \in Marked(tree, "Fraseoloxia") :
        /\ ExpressionTextOf(tree, f) # <<>>
        /\ ~startsWith(ExpressionTextOf(tree, f), PalabrasRelacionadas) }

\* the senses of the selection that have a definition text
DefinedSenses(tree, senses) ==
    SelectSeq(senses, LAMBDA s : DefinitionTextOf(tree, s) # <<>>)

\* the Definition was read from a direct definition, by the fallback
FromFallback(d) == html[d.node].marker = "Definition"

\* the senses with definition text each yield one Definition of the
\* expression of block f; when there is none, the Definitions of the
\* expression, if any, come from the fallback and carry no sense label
SensesYieldDefinitions(f, senses) ==
    IF senses # <<>>
    THEN \E x \in Range(entry[1].expressions) :
            x.node = f /\ Nodes(x.definitions) = senses
    ELSE \A x \in Range(entry[1].expressions) :
            x.node = f => \A d \in Range(x.definitions) :
                             FromFallback(d) /\ d.sense = undefined

\* C12 as claimed: in an expression block with a valid text every sense
\* with definition text, wherever it lies inside the block, yields one
\* Definition of that expression; the fallback over direct definitions is used
\* only when there is no such Definition, and its Definitions carry no label.
C12_NestedSensesAnywhere ==
    Returned =>
        \A f \in ValidExpressionBlocks(html) :
            SensesYieldDefinitions(f, DefinedSenses(html, find(html, f, "Sense")))

\* C12 as amended: in an expression block with a valid text every sense with
\* definition text that lies under a sub-entry container inside the block
\* yields one Definition of that expression, in document order; the fallback
\* over direct definitions is used only when there is no such Definition, and
\* its Definitions carry no sense label.
C12_NestedSensesUnderSubentry ==
    Returned =>
        \A f \in ValidExpressionBlocks(html) :
            SensesYieldDefinitions(f,
                DefinedSenses(html, findUnder(html, f, "Subentry", "Sense")))

\* an entry with an expression read from a sense under a sub-entry container
\* and another one read by the fallback
C12_Witness ==
    /\ Returned
    /\ \E f \in ValidExpressionBlocks(html) :
          /\ DefinedSenses(html, findUnder(html, f, "Subentry", "Sense")) # <<>>
          /\ \E x \in Range(entry[1].expressions) : x.node = f
    /\ \E y \in Range(entry[1].expressions) :
          \E d \in Range(y.definitions) : FromFallback(d)

====
